---- MODULE Spec2Model ----
(***************************************************************************)
(* Model of UCNsource.py: the helium cooling sub-models, calcUCNSource,    *)
(* and the module-level script (default solve, printed summary, parameter  *)
(* sweep, save loop).                                                      *)
(*                                                                         *)
(* Python floats are IEEE-754 binary64.  The sweep values and the          *)
(* parameter table are modelled as binary64 numbers: a non-negative        *)
(* double is <<m, e>> with value m * 2^e, m a 53-bit natural held as a     *)
(* little-endian sequence of base-2^14 limbs (<<>> is zero).               *)
(***************************************************************************)
EXTENDS Integers, Sequences, FiniteSets, TLC

\* ------------------------------------------------------------------------
\* Naturals wider than 31 bits: little-endian limbs, no leading zero limb.
\* ------------------------------------------------------------------------
LimbBits == 14
LimbBase == 16384
MantBits == 53

RECURSIVE Pow2(_)
Pow2(k) == IF k = 0 THEN 1 ELSE 2 * Pow2(k - 1)

RECURSIVE BNorm(_)
BNorm(a) == IF a = <<>> THEN <<>>
            ELSE IF a[Len(a)] = 0 THEN BNorm(SubSeq(a, 1, Len(a) - 1))
            ELSE a

RECURSIVE BFromInt(_)
BFromInt(n) == IF n = 0 THEN <<>>
               ELSE <<n % LimbBase>> \o BFromInt(n \div LimbBase)

RECURSIVE BAddC(_, _, _)
BAddC(a, b, c) ==
  IF a = <<>> /\ b = <<>> THEN (IF c = 0 THEN <<>> ELSE <<c>>)
  ELSE LET x == IF a = <<>> THEN 0 ELSE Head(a)
           y == IF b = <<>> THEN 0 ELSE Head(b)
           s == x + y + c
       IN <<s % LimbBase>> \o BAddC(IF a = <<>> THEN <<>> ELSE Tail(a),
                                    IF b = <<>> THEN <<>> ELSE Tail(b),
                                    s \div LimbBase)

BAdd(a, b) == BAddC(a, b, 0)

\* a - b - c for a >= b + c
RECURSIVE BSubC(_, _, _)
BSubC(a, b, c) ==
  IF a = <<>> THEN <<>>
  ELSE LET y == IF b = <<>> THEN 0 ELSE Head(b)
           d == Head(a) - y - c
       IN <<IF d < 0 THEN d + LimbBase ELSE d>> \o
          BSubC(Tail(a), IF b = <<>> THEN <<>> ELSE Tail(b), IF d < 0 THEN 1 ELSE 0)

BSub(a, b) == BNorm(BSubC(a, b, 0))

\* a * s + c for a limb-sized s
RECURSIVE BMulSmallC(_, _, _)
BMulSmallC(a, s, c) ==
  IF a = <<>> THEN (IF c = 0 THEN <<>> ELSE <<c>>)
  ELSE LET p == Head(a) * s + c
       IN <<p % LimbBase>> \o BMulSmallC(Tail(a), s, p \div LimbBase)

BMulSmall(a, s) == BNorm(BMulSmallC(a, s, 0))

RECURSIVE BMul(_, _)
BMul(a, b) == IF a = <<>> \/ b = <<>> THEN <<>>
              ELSE BAdd(BMulSmall(b, Head(a)),
                        LET r == BMul(Tail(a), b)
                        IN IF r = <<>> THEN <<>> ELSE <<0>> \o r)

\* <<quotient limbs (most significant first), remainder>> of a / d, d < 2^17
RECURSIVE BDivSmallR(_, _, _)
BDivSmallR(a, d, r) ==
  IF a = <<>> THEN <<<<>>, r>>
  ELSE LET cur  == r * LimbBase + a[Len(a)]
           rest == BDivSmallR(SubSeq(a, 1, Len(a) - 1), d, cur % d)
       IN <<rest[1] \o <<cur \div d>>, rest[2]>>

BDivSmall(a, d) == BNorm(BDivSmallR(a, d, 0)[1])
BModSmall(a, d) == BDivSmallR(a, d, 0)[2]

BZeros(n) == [k \in 1..n |-> 0]

BShl(a, k) == IF a = <<>> THEN <<>>
              ELSE BZeros(k \div LimbBits) \o BMulSmall(a, Pow2(k % LimbBits))

BShr(a, k) == IF Len(a) <= k \div LimbBits THEN <<>>
              ELSE BDivSmall(SubSeq(a, (k \div LimbBits) + 1, Len(a)), Pow2(k % LimbBits))

RECURSIVE IntBitLen(_)
IntBitLen(n) == IF n = 0 THEN 0 ELSE 1 + IntBitLen(n \div 2)

BBitLen(a) == IF a = <<>> THEN 0
              ELSE (Len(a) - 1) * LimbBits + IntBitLen(a[Len(a)])

\* -1, 0, 1 as a < b, a = b, a > b
RECURSIVE BCmp(_, _)
BCmp(a, b) ==
  IF Len(a) # Len(b) THEN (IF Len(a) < Len(b) THEN -1 ELSE 1)
  ELSE IF a = <<>> THEN 0
  ELSE IF a[Len(a)] # b[Len(b)] THEN (IF a[Len(a)] < b[Len(b)] THEN -1 ELSE 1)
  ELSE BCmp(BNorm(SubSeq(a, 1, Len(a) - 1)), BNorm(SubSeq(b, 1, Len(b) - 1)))

BOdd(a) == a # <<>> /\ a[1] % 2 = 1

\* ------------------------------------------------------------------------
\* binary64 arithmetic on non-negative doubles (round to nearest, ties to
\* even; no subnormals or overflow arise for the values of this program).
\* ------------------------------------------------------------------------
DZero == <<<<>>, 0>>

\* the double nearest to (n + f) * 2^e, where 0 <= f < 1 and sticky <=> f > 0
DRound(n, e, sticky) ==
  LET len == BBitLen(n) IN
  IF n = <<>> THEN DZero
  ELSE IF len <= MantBits THEN <<BShl(n, MantBits - len), e - (MantBits - len)>>
  ELSE LET s    == len - MantBits
           q    == BShr(n, s)
           r    == BSub(n, BShl(q, s))
           half == BShl(<<1>>, s - 1)
           c    == BCmp(r, half)
           up   == c = 1 \/ (c = 0 /\ (sticky \/ BOdd(q)))
           q1   == IF up THEN BAdd(q, <<1>>) ELSE q
       IN IF BBitLen(q1) > MantBits THEN <<BShr(q1, 1), e + s + 1>>
          ELSE <<q1, e + s>>

DMin(x, y) == IF x < y THEN x ELSE y

DAdd(a, b) ==
  IF a[1] = <<>> THEN b
  ELSE IF b[1] = <<>> THEN a
  ELSE LET e == DMin(a[2], b[2])
       IN DRound(BAdd(BShl(a[1], a[2] - e), BShl(b[1], b[2] - e)), e, FALSE)

\* a - b for a >= b
DSub(a, b) ==
  IF b[1] = <<>> THEN a
  ELSE LET e == DMin(a[2], b[2])
       IN DRound(BSub(BShl(a[1], a[2] - e), BShl(b[1], b[2] - e)), e, FALSE)

DMul(a, b) == DRound(BMul(a[1], b[1]), a[2] + b[2], FALSE)

QuotBits == 70

\* the double nearest to n / d for naturals n < 2^31 and 0 < d < 2^17: a
\* decimal literal n/d, and float(n)/float(d)
DQuot(n, d) ==
  LET num == BShl(BFromInt(n), QuotBits)
  IN DRound(BDivSmall(num, d), 0 - QuotBits, BModSmall(num, d) # 0)

\* -1, 0, 1 as a < b, a = b, a > b
DCmp(a, b) ==
  IF a[1] = <<>> \/ b[1] = <<>>
  THEN (IF a[1] = b[1] THEN 0 ELSE IF a[1] = <<>> THEN -1 ELSE 1)
  ELSE IF a[2] # b[2] THEN (IF a[2] < b[2] THEN -1 ELSE 1)
  ELSE BCmp(a[1], b[1])

\* ------------------------------------------------------------------------
\* The configured parameter table (module level, `parameters = {...}`).
\* Each entry is <<value, range min, range max>>, each number a decimal
\* literal n/d written <<n, d>>.  The 'unit' strings are display only.
\* ------------------------------------------------------------------------
ParamNames ==
  << "3He pumping speed", "He pumping speed", "Pump inlet temperature",
     "3He inlet pressure", "Beam heating", "Static heat", "3He pressure drop",
     "He pressure drop", "Channel diameter", "Channel length", "HEX1 length",
     "HEX1 fin height", "HEX1 fin pitch", "HeII overfill",
     "He reservoir pressure", "1K pot inlet temperature",
     "He reservoir inlet temperature", "Isopure He flow",
     "Isopure He inlet temperature", "Isopure He pressure" >>

ParamLiterals ==
  << << <<5000, 1>>,   <<300, 1>>,   <<10000, 1>>  >>,
     << <<2000, 1>>,   <<500, 1>>,   <<5000, 1>>   >>,
     << <<290, 1>>,    <<100, 1>>,   <<300, 1>>    >>,
     << <<50000, 1>>,  <<50000, 1>>, <<100000, 1>> >>,
     << <<81, 10>>,    <<0, 1>>,     <<10, 1>>     >>,
     << <<1, 1>>,      <<1, 10>>,    <<2, 1>>      >>,
     << <<200, 1>>,    <<0, 1>>,     <<1000, 1>>   >>,
     << <<200, 1>>,    <<0, 1>>,     <<1000, 1>>   >>,
     << <<148, 1000>>, <<1, 10>>,    <<2, 10>>     >>,
     << <<25, 10>>,    <<1, 1>>,     <<4, 1>>      >>,
     << <<6, 10>>,     <<1, 10>>,    <<6, 10>>     >>,
     << <<1, 1000>>,   <<0, 1>>,     <<3, 1000>>   >>,
     << <<2, 1000>>,   <<5, 10000>>, <<5, 1000>>   >>,
     << <<5, 100>>,    <<1, 100>>,   <<2, 10>>     >>,
     << <<120000, 1>>, <<90000, 1>>, <<150000, 1>> >>,
     << <<28, 10>>,    <<2, 1>>,     <<4, 1>>      >>,
     << <<8, 1>>,      <<6, 1>>,     <<12, 1>>     >>,
     << <<0, 1>>,      <<0, 1>>,     <<0, 1>>      >>,
     << <<20, 1>>,     <<10, 1>>,    <<40, 1>>     >>,
     << <<10000, 1>>,  <<1000, 1>>,  <<50000, 1>>  >> >>

\* the inner dict {'value': .., 'range': (min, max)} of table entry n
ParamEntry(n) ==
  LET l == ParamLiterals[n]
  IN [value |-> DQuot(l[1][1], l[1][2]),
      range |-> <<DQuot(l[2][1], l[2][2]), DQuot(l[3][1], l[3][2])>>]

\* How many entries of the table the model carries and sweeps (the first
\* NParams, in the dict's iteration order).
NParams == 2

Names == {ParamNames[n] : n \in 1..NParams}
NameIndex(pp) == CHOOSE n \in 1..NParams : ParamNames[n] = pp

\* ------------------------------------------------------------------------
\* Python objects.  The inner dicts live on a heap: `parameters` and
\* `params` map a name to a reference.  References 1..NParams are the
\* configured table's inner dicts.
\* ------------------------------------------------------------------------
\* Mutant of DictCopyRef: params[pp] = parameters[pp], the inner dict aliased.
DictAlias(pp) == NameIndex(pp)

\* dict(parameters[pp]): a new dict object holding a copy of the entries.
\* (The previous iteration's copies are unreachable by then; their
\* references are reused.)
DictCopyRef(pp) == NParams + NameIndex(pp)

\* value = range[0] + float(j)/10.*(range[1] - range[0])
SweepValue(range, jj) ==
  DAdd(range[1], DMul(DQuot(jj, 10), DSub(range[2], range[1])))

\* range(11)
SweepPoints == 11

\* ------------------------------------------------------------------------
\* calcUCNSource
\* ------------------------------------------------------------------------
\* hepak.HeConst(3), the lambda-point temperature, in model temperature units
HeConst3 == 2

ResultKeys ==
  << "3He flow", "1K pot temperature", "T_4He", "He reservoir temperature",
     "1K pot flow", "He reservoir flow", "He consumption", "20K shield flow",
     "100K shield flow", "Shield consumption", "T_3He", "T_Cu",
     "HeII vapor pressure", "HeII pressure head", "T_HeII" >>

KeyIndex(k) == CHOOSE n \in 1..Len(ResultKeys) : ResultKeys[n] = k

\* The value the property oracles and sub-models yield for quantity k at
\* solve number sid: a number that identifies the quantity and the solve
\* (the physics is external; distinct solves give distinct values).
OracleVal(k, sid) == 100 + 16 * sid + KeyIndex(k)

None == [isNone |-> TRUE, d |-> <<>>]
Dict(d) == [isNone |-> FALSE, d |-> d]

\* keys assigned by lines 186-203, before the T_4He range test
KeysBeforeHeII == {ResultKeys[n] : n \in 1..12}
HeIIKeys == {"HeII vapor pressure", "HeII pressure head", "T_HeII"}

CallsBeforeHeII ==
  << "HeCalc T(P,SV)", "OneKPotEvaporation", "HeReservoirEvaporation",
     "HeCalc D(P,SL)", "shieldFlow", "shieldFlow", "HeCalc D(P,SL)",
     "He3Temperature", "HeCoolingLoad", "HEX1Temperature" >>

CallsHeII == << "HeCalc P(T,SL)", "HeCalc D(T,SL)", "HeIItemperature" >>

\* Mutant of calcUCNSource: the `return` of line 184 is missing.
calcUCNSourceNoReturn(P, s) ==
  LET first == [k \in KeysBeforeHeII |->
                  IF k = "3He flow" THEN s.x[1]
                  ELSE IF k = "1K pot temperature" THEN s.x[2]
                  ELSE IF k = "T_4He" THEN s.x[3]
                  ELSE OracleVal(k, s.solve)]
      said == IF s.success THEN <<>> ELSE <<"Solution did not converge!">>
  IN IF first["T_4He"] < HeConst3
     THEN [ret |-> Dict([k \in KeysBeforeHeII \cup HeIIKeys |->
                           IF k \in HeIIKeys THEN 0 ELSE first[k]]),
           printed |-> said \o <<"T_4He outside HEPAK range!">>,
           calls |-> CallsBeforeHeII]
     ELSE [ret |-> Dict([k \in KeysBeforeHeII \cup HeIIKeys |->
                           IF k \in HeIIKeys THEN OracleVal(k, s.solve)
                           ELSE first[k]]),
           printed |-> said,
           calls |-> CallsBeforeHeII \o CallsHeII]

\* Mutant of calcUCNSource: the range test of line 205 is missing.
calcUCNSourceNoRangeTest(P, s) ==
  IF ~s.success
  THEN [ret |-> None, printed |-> <<"Solution did not converge!">>, calls |-> <<>>]
  ELSE [ret |-> Dict([k \in KeysBeforeHeII \cup HeIIKeys |->
                        IF k = "3He flow" THEN s.x[1]
                        ELSE IF k = "1K pot temperature" THEN s.x[2]
                        ELSE IF k = "T_4He" THEN s.x[3]
                        ELSE OracleVal(k, s.solve)]),
        printed |-> <<>>,
        calls |-> CallsBeforeHeII \o CallsHeII]

\* calcUCNSource(parameters), given the outcome sol of scipy.optimize.root:
\* sol.success, sol.x = <<3He flow, 1K pot temperature, T_4He>>, and the
\* number sol.solve of this solve.  Yields the returned value, the lines
\* printed and the downstream evaluations made, in order.
calcUCNSource(P, s) ==
  IF ~s.success
  THEN [ret |-> None, printed |-> <<"Solution did not converge!">>, calls |-> <<>>]
  ELSE LET first == [k \in KeysBeforeHeII |->
                       IF k = "3He flow" THEN s.x[1]
                       ELSE IF k = "1K pot temperature" THEN s.x[2]
                       ELSE IF k = "T_4He" THEN s.x[3]
                       ELSE OracleVal(k, s.solve)]
       IN IF first["T_4He"] < HeConst3
          THEN [ret |-> Dict([k \in KeysBeforeHeII \cup HeIIKeys |->
                                IF k \in HeIIKeys THEN 0 ELSE first[k]]),
                printed |-> <<"T_4He outside HEPAK range!">>,
                calls |-> CallsBeforeHeII]
          ELSE [ret |-> Dict([k \in KeysBeforeHeII \cup HeIIKeys |->
                                IF k \in HeIIKeys THEN OracleVal(k, s.solve)
                                ELSE first[k]]),
                printed |-> <<>>,
                calls |-> CallsBeforeHeII \o CallsHeII]

\* The outcomes scipy.optimize.root can report for solve number sid.
\* The converged T_4He is below the lambda point or at it.
RootOutcomes(sid) ==
  {[success |-> FALSE, x |-> <<0, 0, 0>>, solve |-> sid]} \cup
  {[success |-> TRUE,
    x |-> <<OracleVal("3He flow", sid), OracleVal("1K pot temperature", sid), t>>,
    solve |-> sid] : t \in {HeConst3 - 1, HeConst3}}

\* ------------------------------------------------------------------------
\* The sub-model functions.  Their arguments are small integers, which are
\* exact doubles with exact sums, differences and products; a quotient is
\* kept as the fraction <<n, d>> in lowest terms, d > 0.  Each function
\* yields [val, printed, calls, raised]: the value returned, the lines
\* printed, the oracle queries made, and the exception raised ("" if none).
\* ------------------------------------------------------------------------
Abs(n) == IF n < 0 THEN 0 - n ELSE n
Min2(a, b) == IF a < b THEN a ELSE b
Max2(a, b) == IF a > b THEN a ELSE b

RECURSIVE Gcd(_, _)
Gcd(a, b) == IF b = 0 THEN a ELSE Gcd(b, a % b)

\* n / d, d # 0
Rat(n, d) ==
  LET g == Gcd(Abs(n), Abs(d))
      sg == IF d < 0 THEN 0 - 1 ELSE 1
  IN <<(sg * n) \div g, (sg * d) \div g>>

RInt(n) == <<n, 1>>
RAdd(a, b) ==
  LET l == (a[2] \div Gcd(a[2], b[2])) * b[2]
  IN Rat(a[1] * (l \div a[2]) + b[1] * (l \div b[2]), l)
RSub(a, b) == RAdd(a, <<0 - b[1], b[2]>>)
RMul(a, b) == Rat(a[1] * b[1], a[2] * b[2])
RDiv(a, b) == Rat(a[1] * b[2], a[2] * b[1])
RLess(a, b) == a[1] * b[2] < b[1] * a[2]

\* math.pi, as a fraction
Pi == <<22, 7>>

\* lines 13-15.  H is the enthalpy oracle hepak.HeCalc('H', 0, 'P', P, 'T', T, 1)
\* on the states <<P, T>> the call queries.
HeCoolingLoad(H, flow, pressure, inletTemperature, outletTemperature) ==
  LET outlet == Max2(HeConst3, outletTemperature)
  IN [val |-> flow * (H[<<pressure, inletTemperature>>] - H[<<pressure, outlet>>]),
      printed |-> <<>>,
      calls |-> <<"HeCalc H(P,T)", "HeCalc H(P,T)">>,
      raised |-> ""]

\* Mutant of HeCoolingFlow: the enthalpy difference taken inlet minus outlet.
HeCoolingFlowInletMinusOutlet(H, heatLoad, pressure, inletTemperature, outletTemperature) ==
  LET dH == H[<<pressure, inletTemperature>>] - H[<<pressure, outletTemperature>>]
  IN IF dH = 0
     THEN [val |-> RInt(0), printed |-> <<>>,
           calls |-> <<"HeCalc H(P,T)", "HeCalc H(P,T)">>,
           raised |-> "ZeroDivisionError"]
     ELSE [val |-> Rat(heatLoad, dH), printed |-> <<>>,
           calls |-> <<"HeCalc H(P,T)", "HeCalc H(P,T)">>,
           raised |-> ""]

\* lines 18-19
HeCoolingFlow(H, heatLoad, pressure, inletTemperature, outletTemperature) ==
  LET dH == H[<<pressure, outletTemperature>>] - H[<<pressure, inletTemperature>>]
  IN IF dH = 0
     THEN [val |-> RInt(0), printed |-> <<>>,
           calls |-> <<"HeCalc H(P,T)", "HeCalc H(P,T)">>,
           raised |-> "ZeroDivisionError"]
     ELSE [val |-> Rat(heatLoad, dH), printed |-> <<>>,
           calls |-> <<"HeCalc H(P,T)", "HeCalc H(P,T)">>,
           raised |-> ""]

\* lines 22-27.  D is the density oracle he3pak.He3Density(P, T) and E the
\* enthalpy oracle he3pak.He3Prop(6, density, T), each on the states the call
\* queries.  Line 26 computes outletEnthalpy and line 27 does not use it: the
\* product is taken with inletEnthalpy - outletDensity.
He3CoolingLoad(D, E, flow, pressure, inletTemperature, outletTemperature) ==
  LET inletDensity == D[<<pressure, inletTemperature>>]
      inletEnthalpy == E[<<inletDensity, inletTemperature>>]
      outletDensity == D[<<pressure, outletTemperature>>]
      outletEnthalpy == E[<<outletDensity, outletTemperature>>]
  IN [val |-> flow * (inletEnthalpy - outletDensity),
      outletEnthalpy |-> outletEnthalpy,
      printed |-> <<>>,
      calls |-> <<"He3Density(P,T)", "He3Prop 6(D,T)",
                  "He3Density(P,T)", "He3Prop 6(D,T)">>,
      raised |-> ""]

\* 0.1 kg/s, the upper clamp of line 48; flows are counted in units of 0.1 kg/s
HeFlowMax == 1
\* hepak.HeConst(4), the specific gas constant of helium (J/kg/K)
HeConst4 == 2077

\* lines 47-54.  The value is the oracle's saturation temperature at the
\* pressure queried, kept as the query.
OneKPotTemperature(HeFlow, pumpingSpeed, pumpInletTemperature, pumpingPressureDrop) ==
  LET flow == Max2(0, Min2(HeFlow, HeFlowMax))
  IN IF pumpingSpeed = 0
     THEN [val |-> <<>>, printed |-> <<>>, calls |-> <<"HeConst(4)">>,
           raised |-> "ZeroDivisionError"]
     ELSE LET pumpInletPressure ==
                RDiv(RInt(flow * HeConst4 * pumpInletTemperature), Rat(pumpingSpeed, 3600))
          IN [val |-> [HeCalc |-> "T(P,SL)",
                       P |-> RAdd(pumpInletPressure, RInt(pumpingPressureDrop))],
              printed |-> <<>>,
              calls |-> <<"HeConst(4)", "HeCalc T(P,SL)">>,
              raised |-> ""]

\* Mutant of HEX1Temperature: the heatLoad <= 0 test moved below line 120.
HEX1TemperatureFinsFirst(T_He3, HEX1length, HEX1diameter, finHeight, finPitch, heatLoad, dT) ==
  IF finPitch = 0
  THEN [val |-> 0, printed |-> <<>>, calls |-> <<>>, raised |-> "ZeroDivisionError"]
  ELSE IF heatLoad <= 0
  THEN [val |-> T_He3, printed |-> <<>>, calls |-> <<>>, raised |-> ""]
  ELSE IF dT.nan
  THEN [val |-> T_He3,
        printed |-> <<"He3 temperature outside valid boiling temperature range!">>,
        calls |-> <<"He3boilingData">>, raised |-> ""]
  ELSE [val |-> T_He3 + dT.v, printed |-> <<>>,
        calls |-> <<"He3boilingData">>, raised |-> ""]

\* lines 117-128.  dT is the answer He3boilingData(T_He3, q) would give:
\* [nan |-> TRUE] outside the table's convex hull, else [nan |-> FALSE, v |-> dT].
HEX1Temperature(T_He3, HEX1length, HEX1diameter, finHeight, finPitch, heatLoad, dT) ==
  IF heatLoad <= 0
  THEN [val |-> T_He3, printed |-> <<>>, calls |-> <<>>, raised |-> ""]
  ELSE IF finPitch = 0
  THEN [val |-> 0, printed |-> <<>>, calls |-> <<>>, raised |-> "ZeroDivisionError"]
  ELSE LET numberFins == Rat(HEX1length, finPitch)
           half       == Rat(HEX1diameter, 2)
           outer      == RAdd(half, RInt(finHeight))
           area ==
             RAdd(RAdd(RDiv(RMul(RMul(RInt(HEX1diameter), Pi), RInt(HEX1length)), RInt(2)),
                       RDiv(RMul(RMul(RInt(HEX1diameter + 2 * finHeight), Pi),
                                 RInt(HEX1length)), RInt(2))),
                  RMul(RMul(RMul(RSub(RMul(outer, outer), RMul(half, half)), Pi),
                            numberFins), RInt(2)))
       IN IF area[1] = 0
          THEN [val |-> 0, printed |-> <<>>, calls |-> <<>>,
                raised |-> "ZeroDivisionError"]
          ELSE IF dT.nan
          THEN [val |-> T_He3,
                printed |-> <<"He3 temperature outside valid boiling temperature range!">>,
                calls |-> <<"He3boilingData">>, raised |-> ""]
          ELSE [val |-> T_He3 + dT.v, printed |-> <<>>,
                calls |-> <<"He3boilingData">>, raised |-> ""]

\* How many times the model's scipy.integrate.solve_ivp evaluates dTdx: it
\* takes that many explicit Euler steps of equal length over (0, x).
IvpSteps == 2

\* lines 146-155: dTdx at temperature T (a fraction); k is the oracle's
\* conductivity hepak.HeCalc(38, 0, 'P', pressure, 'T', T, 1); A the channel
\* cross-section
dTdx(T, k, heatLoad, A) ==
  IF RLess(T, RInt(HeConst3))
  THEN [val |-> RInt(0), printed |-> <<"T_4He outside HEPAK range!">>,
        calls |-> <<>>, raised |-> ""]
  ELSE IF k > 0
  THEN IF A[1] = 0
       THEN [val |-> RInt(0), printed |-> <<>>, calls |-> <<"HeCalc k(P,T)">>,
             raised |-> "ZeroDivisionError"]
       ELSE LET qA == RDiv(RInt(heatLoad), A)
            IN [val |-> RDiv(RMul(RMul(qA, qA), qA), RInt(k)), printed |-> <<>>,
                calls |-> <<"HeCalc k(P,T)">>, raised |-> ""]
  ELSE [val |-> RInt(0), printed |-> <<"Conductivity <= 0!">>,
        calls |-> <<"HeCalc k(P,T)">>, raised |-> ""]

\* line 157: the integration from step n on, st the result so far
RECURSIVE solve_ivp(_, _, _, _, _, _)
solve_ivp(st, n, h, ks, heatLoad, A) ==
  IF n > IvpSteps \/ st.raised # "" THEN st
  ELSE LET d == dTdx(st.val, ks[n], heatLoad, A)
       IN solve_ivp([val |-> RAdd(st.val, RMul(h, d.val)),
                     printed |-> st.printed \o d.printed,
                     calls |-> st.calls \o d.calls,
                     raised |-> d.raised],
                    n + 1, h, ks, heatLoad, A)

\* lines 140-158.  ks[n] is the conductivity the oracle gives at the n-th
\* evaluation of dTdx.
HeIItemperature(x, T_low, pressure, heatLoad, channelDiameter, ks) ==
  IF heatLoad = 0
  THEN [val |-> RInt(T_low), printed |-> <<>>, calls |-> <<>>, raised |-> ""]
  ELSE LET A == RDiv(RMul(Pi, RInt(channelDiameter * channelDiameter)), RInt(4))
       IN solve_ivp([val |-> RInt(T_low), printed |-> <<>>,
                     calls |-> <<"solve_ivp">>, raised |-> ""],
                    1, Rat(x, IvpSteps), ks, heatLoad, A)

\* `if res:` -- None is false, a non-empty dict is true
Truthy(r) == ~r.isNone /\ DOMAIN r.d # {}

EmptySeries ==
  [x |-> <<>>, y |-> <<>>, y2 |-> <<>>, y3 |-> <<>>, y4 |-> <<>>,
   y5 |-> <<>>, y6 |-> <<>>, y7 |-> <<>>, y8 |-> <<>>, y9 |-> <<>>]

\* Mutant of SweepCollect: x.append outside the `if res:`.
SweepCollectXAlways(ser, r, xval) ==
  IF Truthy(r)
  THEN [x  |-> Append(ser.x, xval),
        y  |-> Append(ser.y, r.d["He reservoir flow"] * 1000),
        y2 |-> Append(ser.y2, r.d["T_HeII"]),
        y3 |-> Append(ser.y3, r.d["T_3He"]),
        y4 |-> Append(ser.y4, r.d["T_4He"]),
        y5 |-> Append(ser.y5, r.d["3He flow"] * 1000),
        y6 |-> Append(ser.y6, r.d["1K pot flow"] * 1000),
        y7 |-> Append(ser.y7, Max2(r.d["20K shield flow"], r.d["100K shield flow"]) * 1000),
        y8 |-> Append(ser.y8, r.d["1K pot temperature"]),
        y9 |-> Append(ser.y9, r.d["T_Cu"])]
  ELSE [ser EXCEPT !.x = Append(ser.x, xval)]

\* lines 280-290: the appends of one sweep point
SweepCollect(ser, r, xval) ==
  IF Truthy(r)
  THEN [x  |-> Append(ser.x, xval),
        y  |-> Append(ser.y, r.d["He reservoir flow"] * 1000),
        y2 |-> Append(ser.y2, r.d["T_HeII"]),
        y3 |-> Append(ser.y3, r.d["T_3He"]),
        y4 |-> Append(ser.y4, r.d["T_4He"]),
        y5 |-> Append(ser.y5, r.d["3He flow"] * 1000),
        y6 |-> Append(ser.y6, r.d["1K pot flow"] * 1000),
        y7 |-> Append(ser.y7, Max2(r.d["20K shield flow"], r.d["100K shield flow"]) * 1000),
        y8 |-> Append(ser.y8, r.d["1K pot temperature"]),
        y9 |-> Append(ser.y9, r.d["T_Cu"])]
  ELSE ser

\* ------------------------------------------------------------------------
\* The module-level script
\* ------------------------------------------------------------------------
VARIABLES
  pc,          \* position in the script
  heap,        \* reference -> inner dict [value, range]
  parameters,  \* the global table: name -> reference
  params,      \* the sweep's table: name -> reference (<<>> before the sweep)
  i, j,        \* the sweep's loop indices
  result,      \* result of the default solve
  res,         \* result of the latest sweep solve
  sol,         \* outcome of the latest scipy.optimize.root call
  printed,     \* lines printed by the latest step
  calls,       \* downstream evaluations made by the latest calcUCNSource call
  series,      \* the lists x, y, y2, .., y9
  solved,      \* history: the root outcomes of this parameter's converged points
  fileBusy,    \* UCNsource.pdf is open in another application
  saved,       \* plt.savefig has written UCNsource.pdf
  denied,      \* history: a plt.savefig call has raised PermissionError
  fn,          \* the sub-model function applied last ("" before any)
  fnArgs,      \* its arguments, with the answers of the oracles it queried
  fnOut        \* what it returned, printed, evaluated and raised

progVars == <<pc, heap, parameters, params, i, j, result, res, sol, printed,
              calls, series, solved, fileBusy, saved, denied>>
fnVars == <<fn, fnArgs, fnOut>>
vars == <<progVars, fnVars>>

\* the table a dict of references denotes
Deref(tbl, h) == [pp \in DOMAIN tbl |-> h[tbl[pp]]]

\* the name enumerate(parameters) yields at index ii
ParamAt(ii) == ParamNames[ii + 1]

\* number of the solve at sweep point (ii, jj); the default solve is solve 0
SolveId(ii, jj) == 1 + SweepPoints * ii + jj

NoSol == [success |-> FALSE, x |-> <<0, 0, 0>>, solve |-> 0]

ScriptStart ==
  /\ pc = "default_solve"
  /\ heap = [r \in 1..NParams |-> ParamEntry(r)]
  /\ parameters = [pp \in Names |-> NameIndex(pp)]
  /\ params = <<>>
  /\ i = 0
  /\ j = 0
  /\ result = None
  /\ res = None
  /\ sol = NoSol
  /\ printed = <<>>
  /\ calls = <<>>
  /\ series = EmptySeries
  /\ solved = <<>>
  /\ fileBusy = FALSE
  /\ saved = FALSE
  /\ denied = FALSE

NoCall ==
  /\ fn = ""
  /\ fnArgs = <<>>
  /\ fnOut = <<>>

Init == ScriptStart /\ NoCall

\* line 244: result = calcUCNSource(parameters)
DefaultSolve ==
  /\ pc = "default_solve"
  /\ \E s \in RootOutcomes(0) :
       LET r == calcUCNSource(Deref(parameters, heap), s)
       IN /\ sol' = s
          /\ result' = r.ret
          /\ printed' = r.printed
          /\ calls' = r.calls
  /\ pc' = "summary"
  /\ UNCHANGED <<heap, parameters, params, i, j, res, series, solved,
                 fileBusy, saved, denied>>
  /\ UNCHANGED fnVars

\* lines 246-252: the printed summary subscripts result; on None the first
\* subscript raises TypeError, which nothing catches
Summary ==
  /\ pc = "summary"
  /\ IF result.isNone
     THEN /\ pc' = "crashed"
          /\ printed' = <<"TypeError: 'NoneType' object is not subscriptable">>
     ELSE /\ pc' = "sweep_param"
          /\ printed' = << "3He flow", "He reservoir evaporation", "1K pot",
                           "He consumption", "Required shield flows",
                           "He-II pressure", "T" >>
  /\ UNCHANGED <<heap, parameters, params, i, j, result, res, sol, calls,
                 series, solved, fileBusy, saved, denied>>
  /\ UNCHANGED fnVars

\* lines 260-274: the head of one iteration of `for i, p in enumerate(parameters)`
SweepParam ==
  /\ pc = "sweep_param"
  /\ i < NParams
  /\ params' = [pp \in Names |-> DictCopyRef(pp)]
  /\ heap' = [r \in DOMAIN heap \cup {DictCopyRef(pp) : pp \in Names} |->
                IF \E pp \in Names : DictCopyRef(pp) = r
                THEN heap[parameters[CHOOSE pp \in Names : DictCopyRef(pp) = r]]
                ELSE heap[r]]
  /\ printed' = <<ParamAt(i)>>
  /\ series' = EmptySeries
  /\ solved' = <<>>
  /\ j' = 0
  /\ pc' = "sweep_point"
  /\ UNCHANGED <<parameters, i, result, res, sol, calls, fileBusy, saved, denied>>
  /\ UNCHANGED fnVars

\* How many of one parameter's sweep points the root finder may fail on,
\* and how many it may solve with T_4He below the lambda point.
MaxNonConverged == 2
MaxBelowLambda == 1

NonConverged == j - Len(solved)
BelowLambda == Cardinality({k \in 1..Len(solved) : solved[k].x[3] < HeConst3})

\* lines 275-290: one iteration of `for j in range(11)`
SweepPoint ==
  /\ pc = "sweep_point"
  /\ j < SweepPoints
  /\ \E value \in {SweepValue(heap[params[ParamAt(i)]].range, j)} :
     \E s \in RootOutcomes(SolveId(i, j)) :
       LET p     == ParamAt(i)
           heap1 == [heap EXCEPT ![params[p]].value = value]
           r     == calcUCNSource(Deref(params, heap1), s)
       IN /\ ~s.success => NonConverged < MaxNonConverged
          /\ s.success /\ s.x[3] < HeConst3 => BelowLambda < MaxBelowLambda
          /\ heap' = heap1
          /\ sol' = s
          /\ res' = r.ret
          /\ printed' = <<"value">> \o r.printed
          /\ calls' = r.calls
          /\ series' = SweepCollect(series, r.ret, heap1[params[p]].value)
          /\ solved' = IF s.success THEN Append(solved, s) ELSE solved
  /\ j' = j + 1
  /\ UNCHANGED <<pc, parameters, params, i, result, fileBusy, saved, denied>>
  /\ UNCHANGED fnVars

\* lines 291-308: the panel of parameter i is drawn from the lists.  The
\* lists and res are rebound by the next iteration and never read after the
\* last one; the model drops them here.
SweepPlot ==
  /\ pc = "sweep_point"
  /\ j = SweepPoints
  /\ i' = i + 1
  /\ pc' = "sweep_param"
  /\ series' = EmptySeries
  /\ solved' = <<>>
  /\ res' = None
  /\ sol' = NoSol
  /\ printed' = <<>>
  /\ calls' = <<>>
  /\ UNCHANGED <<heap, parameters, params, j, result, fileBusy, saved, denied>>
  /\ UNCHANGED fnVars

\* the for loop is exhausted; the file may or may not be held by another
\* application when the save loop is entered
SweepEnd ==
  /\ pc = "sweep_param"
  /\ i = NParams
  /\ pc' = "save"
  /\ fileBusy' \in BOOLEAN
  /\ UNCHANGED <<heap, parameters, params, i, j, result, res, sol, printed,
                 calls, series, solved, saved, denied>>
  /\ UNCHANGED fnVars

\* Mutant of SaveFig: no except clause, the PermissionError is fatal.
SaveFigUncaught ==
  /\ pc = "save"
  /\ IF fileBusy
     THEN /\ pc' = "crashed"
          /\ printed' = <<"PermissionError">>
          /\ denied' = TRUE
          /\ UNCHANGED saved
     ELSE /\ pc' = "close"
          /\ saved' = TRUE
          /\ printed' = <<>>
          /\ UNCHANGED denied
  /\ UNCHANGED <<heap, parameters, params, i, j, result, res, sol, calls,
                 series, solved, fileBusy>>
  /\ UNCHANGED fnVars

\* lines 310-316: plt.savefig('UCNsource.pdf') inside try; PermissionError
\* goes to the except clause, success to else: break
SaveFig ==
  /\ pc = "save"
  /\ IF fileBusy
     THEN /\ pc' = "prompt"
          /\ printed' = <<"Could not save plots. Press ENTER to try again.">>
          /\ denied' = TRUE
          /\ UNCHANGED saved
     ELSE /\ pc' = "close"
          /\ saved' = TRUE
          /\ printed' = <<>>
          /\ UNCHANGED denied
  /\ UNCHANGED <<heap, parameters, params, i, j, result, res, sol, calls,
                 series, solved, fileBusy>>
  /\ UNCHANGED fnVars

\* line 314: input(...) returns when the user presses ENTER; the loop repeats
PromptAnswered ==
  /\ pc = "prompt"
  /\ pc' = "save"
  /\ printed' = <<>>
  /\ UNCHANGED <<heap, parameters, params, i, j, result, res, sol, calls,
                 series, solved, fileBusy, saved, denied>>
  /\ UNCHANGED fnVars

\* line 317: plt.close()
Close ==
  /\ pc = "close"
  /\ pc' = "done"
  /\ UNCHANGED <<heap, parameters, params, i, j, result, res, sol, printed,
                 calls, series, solved, fileBusy, saved, denied>>
  /\ UNCHANGED fnVars

\* the environment: another application opens or closes UCNsource.pdf
\* while the save loop runs
OtherAppOpens ==
  /\ pc \in {"save", "prompt"}
  /\ ~fileBusy
  /\ fileBusy' = TRUE
  /\ UNCHANGED <<pc, heap, parameters, params, i, j, result, res, sol, printed,
                 calls, series, solved, saved, denied>>
  /\ UNCHANGED fnVars

OtherAppCloses ==
  /\ pc \in {"save", "prompt"}
  /\ fileBusy
  /\ fileBusy' = FALSE
  /\ UNCHANGED <<pc, heap, parameters, params, i, j, result, res, sol, printed,
                 calls, series, solved, saved, denied>>
  /\ UNCHANGED fnVars

Next ==
  \/ DefaultSolve
  \/ Summary
  \/ SweepParam
  \/ SweepPoint
  \/ SweepPlot
  \/ SweepEnd
  \/ SaveFig
  \/ PromptAnswered
  \/ Close
  \/ OtherAppOpens
  \/ OtherAppCloses

Spec == Init /\ [][Next]_vars

\* Once in the save loop the interpreter keeps executing it, and the user
\* answers a prompt; the other application is under no obligation.
FairSpec ==
  Spec /\ WF_vars(SaveFig) /\ WF_vars(PromptAnswered) /\ WF_vars(Close)
\* ------------------------------------------------------------------------
\* The sub-model functions applied on their own: each behaviour applies one
\* function once, to arguments and oracle answers drawn from small sets.
\* ------------------------------------------------------------------------
MaxTemp == 3
MaxFlow == 2
MaxEnth == 2
MaxLoad == 2
MaxGeom == 2

Temps == 1..MaxTemp
Flows == (0 - 1)..MaxFlow
Enths == 0..MaxEnth
Loads == (0 - 1)..MaxLoad
Geoms == 0..MaxGeom
Pressures == {1, 2}
Conductivities == {0, 1}

\* the enthalpy oracles defined on the states a call at P, Tin, Tout queries
EnthalpyOracles(P, Tin, Tout) ==
  [{<<P, T>> : T \in {Tin, Tout, Max2(HeConst3, Tout)}} -> Enths]

CallHeCoolingLoad ==
  /\ fn = ""
  /\ \E flow \in Flows, P \in Pressures, Tin \in Temps, Tout \in Temps :
     \E H \in EnthalpyOracles(P, Tin, Tout) :
       /\ fn' = "HeCoolingLoad"
       /\ fnArgs' = [flow |-> flow, pressure |-> P, inletTemperature |-> Tin,
                     outletTemperature |-> Tout, H |-> H]
       /\ fnOut' = HeCoolingLoad(H, flow, P, Tin, Tout)
  /\ UNCHANGED progVars

CallHeCoolingFlow ==
  /\ fn = ""
  /\ \E heatLoad \in Loads, P \in Pressures, Tin \in Temps, Tout \in Temps :
     \E H \in EnthalpyOracles(P, Tin, Tout) :
       /\ fn' = "HeCoolingFlow"
       /\ fnArgs' = [heatLoad |-> heatLoad, pressure |-> P, inletTemperature |-> Tin,
                     outletTemperature |-> Tout, H |-> H]
       /\ fnOut' = HeCoolingFlow(H, heatLoad, P, Tin, Tout)
  /\ UNCHANGED progVars

\* HeCoolingFlow(HeCoolingLoad(flow, P, Tin, Tout), P, Tin, Tout)
CallRoundTrip ==
  /\ fn = ""
  /\ \E flow \in Flows, P \in Pressures, Tin \in Temps, Tout \in Temps :
     \E H \in EnthalpyOracles(P, Tin, Tout) :
       LET load == HeCoolingLoad(H, flow, P, Tin, Tout)
       IN /\ fn' = "HeCoolingFlow(HeCoolingLoad)"
          /\ fnArgs' = [flow |-> flow, pressure |-> P, inletTemperature |-> Tin,
                        outletTemperature |-> Tout, H |-> H]
          /\ fnOut' = [load |-> load,
                       flow |-> HeCoolingFlow(H, load.val, P, Tin, Tout)]
  /\ UNCHANGED progVars

MaxDens == 2
Densities == 1..MaxDens

\* the density oracles on the two states a call at P, Tin, Tout queries
DensityOracles(P, Tin, Tout) == [{<<P, Tin>>, <<P, Tout>>} -> Densities]

\* the He-3 enthalpy oracles on the states <<density, T>> the call queries
He3EnthalpyOracles(D, P, Tin, Tout) ==
  [{<<D[<<P, Tin>>], Tin>>, <<D[<<P, Tout>>], Tout>>} -> Enths]

CallHe3CoolingLoad ==
  /\ fn = ""
  /\ \E flow \in Flows, P \in Pressures, Tin \in Temps, Tout \in Temps :
     \E D \in DensityOracles(P, Tin, Tout) :
     \E E \in He3EnthalpyOracles(D, P, Tin, Tout) :
       /\ fn' = "He3CoolingLoad"
       /\ fnArgs' = [flow |-> flow, pressure |-> P, inletTemperature |-> Tin,
                     outletTemperature |-> Tout, D |-> D, E |-> E]
       /\ fnOut' = He3CoolingLoad(D, E, flow, P, Tin, Tout)
  /\ UNCHANGED progVars

CallOneKPotTemperature ==
  /\ fn = ""
  /\ \E HeFlow \in Flows, speed \in {0, 3600, 7200}, T \in Temps, dP \in {0, 1} :
       /\ fn' = "OneKPotTemperature"
       /\ fnArgs' = [HeFlow |-> HeFlow, pumpingSpeed |-> speed,
                     pumpInletTemperature |-> T, pumpingPressureDrop |-> dP]
       /\ fnOut' = OneKPotTemperature(HeFlow, speed, T, dP)
  /\ UNCHANGED progVars

CallHEX1Temperature ==
  /\ fn = ""
  /\ \E T \in Temps, L \in Geoms, D \in Geoms, fh \in Geoms, fp \in Geoms,
        heatLoad \in Loads,
        dT \in {[nan |-> TRUE, v |-> 0]} \cup {[nan |-> FALSE, v |-> d] : d \in {0, 1}} :
       /\ fn' = "HEX1Temperature"
       /\ fnArgs' = [T_He3 |-> T, HEX1length |-> L, HEX1diameter |-> D,
                     finHeight |-> fh, finPitch |-> fp, heatLoad |-> heatLoad, dT |-> dT]
       /\ fnOut' = HEX1Temperature(T, L, D, fh, fp, heatLoad, dT)
  /\ UNCHANGED progVars

CallHeIItemperature ==
  /\ fn = ""
  /\ \E x \in Geoms, T \in Temps, P \in Pressures, heatLoad \in Loads, D \in Geoms,
        ks \in [1..IvpSteps -> Conductivities] :
       /\ fn' = "HeIItemperature"
       /\ fnArgs' = [x |-> x, T_low |-> T, pressure |-> P, heatLoad |-> heatLoad,
                     channelDiameter |-> D, ks |-> ks]
       /\ fnOut' = HeIItemperature(x, T, P, heatLoad, D, ks)
  /\ UNCHANGED progVars

\* line 276, for any entry of the configured table and any j of range(11)
CallSweepValue ==
  /\ fn = ""
  /\ \E n \in 1..Len(ParamNames), jj \in 0..(SweepPoints - 1) :
       /\ fn' = "SweepValue"
       /\ fnArgs' = [p |-> ParamNames[n], range |-> ParamEntry(n).range, j |-> jj]
       /\ fnOut' = [val |-> SweepValue(ParamEntry(n).range, jj)]
  /\ UNCHANGED progVars

FnNext ==
  \/ CallHeCoolingLoad
  \/ CallHeCoolingFlow
  \/ CallRoundTrip
  \/ CallHe3CoolingLoad
  \/ CallOneKPotTemperature
  \/ CallHEX1Temperature
  \/ CallHeIItemperature
  \/ CallSweepValue

FnSpec == Init /\ [][FnNext]_vars
\* ------------------------------------------------------------------------
\* Claims
\* ------------------------------------------------------------------------
IsRoundTrip == fn = "HeCoolingFlow(HeCoolingLoad)"

\* the round trip's precondition: positive flow, outlet temperature at or
\* above the lambda point, different enthalpies at inlet and outlet
RoundTripCase ==
  /\ IsRoundTrip
  /\ fnArgs.flow > 0
  /\ fnArgs.outletTemperature >= HeConst3
  /\ fnArgs.H[<<fnArgs.pressure, fnArgs.inletTemperature>>]
       # fnArgs.H[<<fnArgs.pressure, fnArgs.outletTemperature>>]

\* C1 as stated: under the precondition,
\* HeCoolingFlow(HeCoolingLoad(flow, P, Tin, Tout), P, Tin, Tout) returns flow.
C1_RoundTripReturnsFlow ==
  RoundTripCase => /\ fnOut.flow.raised = ""
                   /\ fnOut.flow.val = RInt(fnArgs.flow)

\* C1 amended: under the precondition the round trip returns -flow, the
\* same magnitude with the opposite sign.
C1_RoundTripReturnsMinusFlow ==
  RoundTripCase => /\ fnOut.flow.raised = ""
                   /\ fnOut.flow.val = RInt(0 - fnArgs.flow)

C1_Witness ==
  /\ RoundTripCase
  /\ fnArgs.flow = 2
  /\ fnArgs.inletTemperature < HeConst3
  /\ fnOut.load.val # 0
  /\ fnOut.flow.val = RInt(0 - 2)

\* a calcUCNSource call has just returned; its value is in `result` (the
\* default solve) or in `res` (a sweep point)
AfterSolve == pc = "summary" \/ (pc = "sweep_point" /\ j > 0)
Returned == IF pc = "summary" THEN result ELSE res
Said(line) == \E k \in DOMAIN printed : printed[k] = line

\* C2: when the root finder reports non-convergence, calcUCNSource prints
\* the failure, returns None and evaluates no downstream quantity; it
\* returns a Result Record only when the root finder reported success.
C2_NoResultOnNonConvergence ==
  AfterSolve =>
    /\ ~sol.success => /\ Returned.isNone
                       /\ Said("Solution did not converge!")
                       /\ calls = <<>>
    /\ ~Returned.isNone => sol.success

C2_Witness ==
  /\ pc = "sweep_point"
  /\ j > 1
  /\ ~sol.success
  /\ res.isNone
  /\ Said("Solution did not converge!")
  /\ calls = <<>>

\* C3: a convergence failure is never fatal at any call site: the script
\* does not die on the missing result.
C3_NonConvergenceNeverFatal == pc # "crashed"

\* the configured table and the sweep values of its ranges, evaluated once
ConfiguredTable == [n \in 1..Len(ParamNames) |-> ParamEntry(n)]
SweepValueTable ==
  [n \in 1..Len(ParamNames) |->
     [jj \in 0..(SweepPoints - 1) |-> SweepValue(ConfiguredTable[n].range, jj)]]

SeriesNames == {"x", "y", "y2", "y3", "y4", "y5", "y6", "y7", "y8", "y9"}

\* the entries the k-th converged solve s of parameter ii puts in the lists
ExpectedEntry(ii, s) ==
  [x  |-> SweepValueTable[ii + 1][s.solve - SolveId(ii, 0)],
   y  |-> OracleVal("He reservoir flow", s.solve) * 1000,
   y2 |-> IF s.x[3] < HeConst3 THEN 0 ELSE OracleVal("T_HeII", s.solve),
   y3 |-> OracleVal("T_3He", s.solve),
   y4 |-> s.x[3],
   y5 |-> s.x[1] * 1000,
   y6 |-> OracleVal("1K pot flow", s.solve) * 1000,
   y7 |-> Max2(OracleVal("20K shield flow", s.solve),
               OracleVal("100K shield flow", s.solve)) * 1000,
   y8 |-> s.x[2],
   y9 |-> OracleVal("T_Cu", s.solve)]

\* C4: during the sweep of one parameter, x and the nine y series all have
\* the length of the number of converged points so far, and entry k of every
\* series is the value of the k-th converged solve: a non-converging point
\* adds nothing, and no entry is stale or a default.
C4_SeriesHoldConvergedPointsOnly ==
  pc = "sweep_point" =>
    /\ Len(solved) + NonConverged = j
    /\ \A k \in 1..Len(solved) : solved[k].success
    /\ \A k \in 1..(Len(solved) - 1) : solved[k].solve < solved[k + 1].solve
    /\ \A f \in SeriesNames : Len(series[f]) = Len(solved)
    /\ \A k \in 1..Len(solved) :
         [f \in SeriesNames |-> series[f][k]]
           = [f \in SeriesNames |-> ExpectedEntry(i, solved[k])[f]]

C4_Witness ==
  /\ pc = "sweep_point"
  /\ j = SweepPoints
  /\ NonConverged = 2
  /\ Len(series.x) = SweepPoints - 2
  /\ \A f \in SeriesNames : Len(series[f]) = Len(series.x)
  /\ solved[1].solve = SolveId(i, 1)
  /\ solved[Len(solved)].solve = SolveId(i, SweepPoints - 2)

\* exact comparison of sums of doubles: a + b = c + d
DExactSumEq(a, b, c, d) ==
  LET e == DMin(DMin(a[2], b[2]), DMin(c[2], d[2]))
  IN BAdd(BShl(a[1], a[2] - e), BShl(b[1], b[2] - e))
       = BAdd(BShl(c[1], c[2] - e), BShl(d[1], d[2] - e))

\* C5: the sweep value at j = 0 is the range's min, at j = 10 its max, and
\* consecutive values differ by one and the same step.
C5_SweepSpansRangeInEqualSteps ==
  fn = "SweepValue" =>
    LET r == fnArgs.range
        n == CHOOSE m \in 1..Len(ParamNames) : ParamNames[m] = fnArgs.p
        v(jj) == SweepValueTable[n][jj]
    IN /\ fnArgs.j = 0 => fnOut.val = r[1]
       /\ fnArgs.j = SweepPoints - 1 => fnOut.val = r[2]
       /\ fnArgs.j \in 1..(SweepPoints - 2) =>
            DExactSumEq(v(fnArgs.j - 1), v(fnArgs.j + 1), fnOut.val, fnOut.val)

\* C6: the sweep changes only its own copy of the table and only the swept
\* parameter: the configured table keeps its values throughout, and at every
\* sweep point every parameter but the swept one has its configured entry
\* while the swept one has the point's value.
C6_SweepOverridesOneParameterOfAClone ==
  /\ \A pp \in Names : heap[parameters[pp]] = ConfiguredTable[NameIndex(pp)]
  /\ pc = "sweep_point" =>
       /\ \A pp \in Names \ {ParamAt(i)} :
            heap[params[pp]] = ConfiguredTable[NameIndex(pp)]
       /\ heap[params[ParamAt(i)]].range = ConfiguredTable[i + 1].range
       /\ j > 0 => heap[params[ParamAt(i)]].value = SweepValueTable[i + 1][j - 1]

C6_Witness ==
  /\ pc = "sweep_point"
  /\ i = 1
  /\ j = SweepPoints
  /\ heap[params[ParamAt(0)]].value = ConfiguredTable[1].value
  /\ heap[params[ParamAt(1)]].value # ConfiguredTable[2].value
  /\ heap[parameters[ParamAt(1)]].value = ConfiguredTable[2].value

\* C7: a converged solve with T_4He below the lambda point prints the
\* diagnostic and returns a record with the three He-II entries exactly 0,
\* made without the oracle and integration calls behind them, and with all
\* other entries present.
C7_BelowLambdaZeroesHeIIBranch ==
  (AfterSolve /\ sol.success /\ sol.x[3] < HeConst3) =>
    /\ ~Returned.isNone
    /\ DOMAIN Returned.d = {ResultKeys[n] : n \in 1..Len(ResultKeys)}
    /\ \A k \in HeIIKeys : Returned.d[k] = 0
    /\ Returned.d["T_4He"] = sol.x[3]
    /\ Said("T_4He outside HEPAK range!")
    /\ calls = CallsBeforeHeII
    /\ \A n \in DOMAIN calls : \A m \in DOMAIN CallsHeII : calls[n] # CallsHeII[m]

C7_Witness ==
  /\ pc = "sweep_point"
  /\ j > 0
  /\ sol.success
  /\ sol.x[3] < HeConst3
  /\ res.d["T_HeII"] = 0
  /\ res.d["T_Cu"] = OracleVal("T_Cu", sol.solve)
  /\ series.y2[Len(series.y2)] = 0

InSaveLoop == pc \in {"save", "prompt"}

\* C8: in the save loop a PermissionError leads to the prompt and the
\* answered prompt to another save attempt; the loop is left only by a
\* save attempt that succeeded, never by an abort; and if the file
\* eventually stays free, the loop ends with the file saved.
C8_SaveRetriesUntilSaved ==
  /\ [][(pc = "save" /\ pc' # "save") =>
          IF fileBusy THEN pc' = "prompt" /\ ~saved' ELSE pc' = "close" /\ saved']_vars
  /\ [][(pc = "prompt" /\ pc' # "prompt") => pc' = "save"]_vars
  /\ [][(InSaveLoop /\ ~InSaveLoop') => (pc = "save" /\ ~fileBusy /\ saved')]_vars
  /\ (<>[](~fileBusy)) => [](InSaveLoop => <>(pc = "done" /\ saved))

\* a save failed on the busy file, the user answered the prompt, and the
\* next attempt saved the file
C8_Witness ==
  /\ pc = "done"
  /\ denied
  /\ saved

\* C9: HEX1Temperature with heatLoad <= 0 returns T_He3 itself, whatever the
\* geometry (a zero fin pitch included), raising nothing and querying
\* nothing; HeIItemperature with heatLoad = 0 returns T_low itself, whatever
\* the length, pressure and diameter, without integrating.
C9_ZeroLoadReturnsInput ==
  /\ (fn = "HEX1Temperature" /\ fnArgs.heatLoad <= 0) =>
       fnOut = [val |-> fnArgs.T_He3, printed |-> <<>>, calls |-> <<>>, raised |-> ""]
  /\ (fn = "HeIItemperature" /\ fnArgs.heatLoad = 0) =>
       fnOut = [val |-> RInt(fnArgs.T_low), printed |-> <<>>, calls |-> <<>>,
                raised |-> ""]

C9_Witness ==
  /\ fn = "HEX1Temperature"
  /\ fnArgs.heatLoad = 0
  /\ fnArgs.finPitch = 0
  /\ fnArgs.HEX1length = 0
  /\ fnArgs.T_He3 = MaxTemp
  /\ fnOut.val = MaxTemp
  /\ fnOut.raised = ""

\* C10: wherever a sub-model uses a substitute for the requested value, it
\* prints a diagnostic: HeCoolingLoad raising the outlet temperature to the
\* lambda point, OneKPotTemperature clamping the flow, HEX1Temperature
\* falling back to the bath temperature, HeIItemperature flooring dTdx.
C10_SubstitutionIsDiagnosed ==
  /\ (fn = "HeCoolingLoad" /\ fnArgs.outletTemperature < HeConst3) =>
       fnOut.printed # <<>>
  /\ (fn = "OneKPotTemperature" /\ fnOut.raised = ""
        /\ (fnArgs.HeFlow < 0 \/ fnArgs.HeFlow > HeFlowMax)) =>
       fnOut.printed # <<>>
  /\ (fn = "HEX1Temperature" /\ fnOut.raised = "" /\ fnArgs.heatLoad > 0
        /\ fnArgs.dT.nan) =>
       fnOut.printed # <<>>
  /\ (fn = "HeIItemperature" /\ fnArgs.heatLoad # 0
        /\ (fnArgs.T_low < HeConst3 \/ fnArgs.ks[1] <= 0)) =>
       fnOut.printed # <<>>

\* C11: He3CoolingLoad returns flow times the He-3 enthalpy difference,
\* flow * (enthalpy at the inlet state - enthalpy at the outlet state), for
\* every flow, pressure, inlet and outlet temperature and every oracle.
C11_He3LoadIsFlowTimesEnthalpyDifference ==
  fn = "He3CoolingLoad" =>
    LET inletState == <<fnArgs.D[<<fnArgs.pressure, fnArgs.inletTemperature>>],
                        fnArgs.inletTemperature>>
        outletState == <<fnArgs.D[<<fnArgs.pressure, fnArgs.outletTemperature>>],
                         fnArgs.outletTemperature>>
    IN /\ fnOut.raised = ""
       /\ fnOut.val = fnArgs.flow * (fnArgs.E[inletState] - fnArgs.E[outletState])

====
